---------------------------- MODULE Spec2Model ----------------------------
(***************************************************************************)
(* Model of Investing-AI-Agent: scrape.py (metric catalog, statement       *)
(* slicing, TTM merge, the four extractors, the ticker orchestrator) and   *)
(* the structuring script appended to it (melt, concat, pivot_table).      *)
(*                                                                         *)
(* Three specifications share the module:                                  *)
(*   Spec          the orchestrator (__main__ of scrape.py)                *)
(*   SpecExtract   the extractors applied to bounded provider responses    *)
(*   SpecStructure the structuring script applied to bounded CSV inputs    *)
(***************************************************************************)
EXTENDS Integers, Sequences, FiniteSets, TLC

(***************************************************************************)
(* Values.  A Python value that may be None/NaN is an option: <<>> is the  *)
(* absence marker, <<v>> a present value v.                                *)
(***************************************************************************)
None == <<>>

Some(v) == <<v>>

NaN == None

Range(s) == {s[k] : k \in DOMAIN s}

\* All sequences without repetition over S of length at most n.
RECURSIVE DistinctSeqs(_, _)
DistinctSeqs(S, n) ==
    IF n = 0 \/ S = {} THEN {<<>>}
    ELSE {<<>>} \cup UNION {{<<x>> \o t : t \in DistinctSeqs(S \ {x}, n - 1)} : x \in S}

\* Position of the first occurrence of x in s (0 when absent).
RECURSIVE IndexOfFrom(_, _, _)
IndexOfFrom(s, x, k) ==
    IF k > Len(s) THEN 0
    ELSE IF s[k] = x THEN k
    ELSE IndexOfFrom(s, x, k + 1)

IndexOf(s, x) == IndexOfFrom(s, x, 1)

(***************************************************************************)
(* The metric catalog.                                                     *)
(***************************************************************************)
MAX_TICKERS == 10

financial_metrics ==
    <<"Total Revenue", "Cost Of Revenue", "EBIT", "Net Income",
      "Research And Development">>

balance_metrics ==
    <<"Total Assets", "Current Assets", "Inventory",
      "Total Liabilities Net Minority Interest", "Current Liabilities",
      "Long Term Debt", "Total Debt", "Stockholders Equity">>

cashflow_metrics ==
    <<"Cash Flow From Continuing Operating Activities", "Capital Expenditure">>

market_metrics ==
    <<"currentPrice", "sharesOutstanding", "forwardEps", "enterpriseValue">>

(***************************************************************************)
(* Tables.  A provider statement (a label-indexed DataFrame) is            *)
(*   [index |-> row labels, columns |-> column labels, data |-> rows]      *)
(* with data[r][c] the cell of row r and column c.  yfinance builds the    *)
(* frame by pivoting on the line-item name, so row labels are unique.      *)
(* A frame after reset_index() (positional index) is                       *)
(*   [columns |-> column labels, rows |-> rows]                            *)
(* with rows[r][c] the cell of row r under columns[c].                     *)
(***************************************************************************)
\* DataFrame.empty: an axis of length 0.
empty(df) == Len(df.index) = 0 \/ Len(df.columns) = 0

\* pd.to_datetime(col).date().isoformat() on the timestamps of the model:
\* the time of day is dropped, the calendar date is kept.
isoformat_date(col) ==
    CASE col = "2024-09-30 00:00:00" -> "2024-09-30"
      [] col = "2023-09-30 00:00:00" -> "2023-09-30"
      [] col = "2022-09-24 16:30:00" -> "2022-09-24"
      [] OTHER -> col

\* Lexicographic order of the metric names that are sorted (merge keys, pivot
\* columns).
LexOrder ==
    <<"Capital Expenditure", "Cash Flow From Continuing Operating Activities",
      "Cost Of Revenue", "EBIT", "Net Income", "Research And Development",
      "Total Assets", "Total Debt", "Total Revenue">>

\* The keys of K in lexicographic order.
SortLex(K) == SelectSeq(LexOrder, LAMBDA m : m \in K)

\* Mutant of index_intersection: every row of the table is kept.
index_unfiltered(index, metrics) == index

\* Index.intersection(metrics): the labels of the index that are in metrics,
\* in the order of the index.
index_intersection(index, metrics) ==
    SelectSeq(index, LAMBDA l : l \in Range(metrics))

\* The column header get_std_values gives to column col.
RenameColumn(col) ==
    IF col \in {"Metrics", "TTM"} THEN col ELSE isoformat_date(col)

get_std_values(df, metrics) ==
    LET available_metrics == index_intersection(df.index, metrics)
        row(l) == df.data[IndexOf(df.index, l)]
    IN  [columns |-> <<"Metrics">> \o
                     [c \in 1..Len(df.columns) |-> RenameColumn(df.columns[c])],
         rows |-> [r \in 1..Len(available_metrics) |->
                      <<available_metrics[r]>> \o row(available_metrics[r])]]

\* The TTM slice: {m: df_ttm.at[m, latest_col] for m in metrics if m in index}
\* turned into a frame with the columns Metrics and TTM.
ttm_slice(df_ttm, metrics) ==
    LET found == SelectSeq(metrics, LAMBDA m : m \in Range(df_ttm.index))
    IN  [columns |-> <<"Metrics", "TTM">>,
         rows |-> [r \in 1..Len(found) |->
                      <<found[r], df_ttm.data[IndexOf(df_ttm.index, found[r])][1]>>]]

\* The cells of s without position k.
DropAt(s, k) == SubSeq(s, 1, k - 1) \o SubSeq(s, k + 1, Len(s))

\* The row of frame f whose key (column kc) is key; 0 when there is none.
RECURSIVE RowOfKeyFrom(_, _, _, _)
RowOfKeyFrom(f, kc, key, r) ==
    IF r > Len(f.rows) THEN 0
    ELSE IF f.rows[r][kc] = key THEN r
    ELSE RowOfKeyFrom(f, kc, key, r + 1)

RowOfKey(f, kc, key) == RowOfKeyFrom(f, kc, key, 1)

\* Mutant of merge_outer: how="left", only the keys of left are kept.
merge_left(left, right, on) ==
    LET lk == IndexOf(left.columns, on)
        rk == IndexOf(right.columns, on)
        rcells(key) ==
            LET r == RowOfKey(right, rk, key)
            IN  IF r # 0 THEN DropAt(right.rows[r], rk)
                ELSE [c \in 1..(Len(right.columns) - 1) |-> NaN]
    IN  [columns |-> left.columns \o DropAt(right.columns, rk),
         rows |-> [r \in 1..Len(left.rows) |->
                      left.rows[r] \o rcells(left.rows[r][lk])]]

\* pd.merge(left, right, on=on, how="outer") for frames whose keys are unique:
\* the columns of left, then those of right without the key; one row per key
\* of either side, keys sorted; the cells of a side without the key are NaN.
\* (When both frames have no row, pandas may instead reject the key columns'
\* dtypes with a ValueError, depending on its version; the properties below
\* speak of the frames that are returned.)
merge_outer(left, right, on) ==
    LET lk == IndexOf(left.columns, on)
        rk == IndexOf(right.columns, on)
        keys == SortLex({left.rows[r][lk] : r \in DOMAIN left.rows}
                        \cup {right.rows[r][rk] : r \in DOMAIN right.rows})
        lcells(key) ==
            LET r == RowOfKey(left, lk, key)
            IN  IF r # 0 THEN left.rows[r]
                ELSE [c \in 1..Len(left.columns) |-> IF c = lk THEN key ELSE NaN]
        rcells(key) ==
            LET r == RowOfKey(right, rk, key)
            IN  IF r # 0 THEN DropAt(right.rows[r], rk)
                ELSE [c \in 1..(Len(right.columns) - 1) |-> NaN]
    IN  [columns |-> left.columns \o DropAt(right.columns, rk),
         rows |-> [r \in 1..Len(keys) |-> lcells(keys[r]) \o rcells(keys[r])]]

(***************************************************************************)
(* The four extractors.  A ticker object t is the provider's response:     *)
(*   [financials, ttm_financials, balance_sheet, cashflow, ttm_cashflow,   *)
(*    info], each an option.  An extractor returns a frame or raises.      *)
(***************************************************************************)
Raise(msg) == [raised |-> TRUE, error |-> msg]

Return(v) == [raised |-> FALSE, value |-> v]

Absent(df) == df = None \/ empty(df[1])

\* Mutant of extract_financial: the periodic slice is the left frame of the
\* merge, the TTM slice the right one.
extract_financial_std_first(fin) ==
    IF Absent(fin.financials)
    THEN Raise("No annual/quarterly financial data available.")
    ELSE IF Absent(fin.ttm_financials)
    THEN Raise("No TTM financial data available.")
    ELSE Return(merge_outer(get_std_values(fin.financials[1], financial_metrics),
                            ttm_slice(fin.ttm_financials[1], financial_metrics),
                            "Metrics"))

extract_financial(fin) ==
    IF Absent(fin.financials)
    THEN Raise("No annual/quarterly financial data available.")
    ELSE IF Absent(fin.ttm_financials)
    THEN Raise("No TTM financial data available.")
    ELSE Return(merge_outer(ttm_slice(fin.ttm_financials[1], financial_metrics),
                            get_std_values(fin.financials[1], financial_metrics),
                            "Metrics"))

extract_balance(bs) ==
    IF Absent(bs.balance_sheet)
    THEN Raise("No annual/quarterly balance sheet data available.")
    ELSE Return(get_std_values(bs.balance_sheet[1], balance_metrics))

extract_cashflow(cf) ==
    IF Absent(cf.cashflow)
    THEN Raise("No annual/quarterly cash flow data available.")
    ELSE IF Absent(cf.ttm_cashflow)
    THEN Raise("No annual/quarterly TTM cash flow data available.")
    ELSE Return(merge_outer(ttm_slice(cf.ttm_cashflow[1], cashflow_metrics),
                            get_std_values(cf.cashflow[1], cashflow_metrics),
                            "Metrics"))

\* Mutant of dict_get: info.get(key, 0).
dict_get_zero(info, key) == IF key \in DOMAIN info THEN info[key] ELSE Some(0)

\* info.get(key, None) on a dictionary held as a function from its keys.
dict_get(info, key) == IF key \in DOMAIN info THEN info[key] ELSE None

\* "not info": None or the empty dictionary.
Falsy(info) == info = None \/ DOMAIN info[1] = {}

extract_market(market) ==
    IF Falsy(market.info)
    THEN Raise("No market data available.")
    ELSE Return([columns |-> <<"Metrics", "Value">>,
                 rows |-> << <<"currentPrice", dict_get(market.info[1], "currentPrice")>>,
                             <<"sharesOutstanding", dict_get(market.info[1], "sharesOutstanding")>>,
                             <<"forwardEps", dict_get(market.info[1], "forwardEps")>>,
                             <<"enterpriseValue", dict_get(market.info[1], "enterpriseValue")>> >>])


(***************************************************************************)
(* State.                                                                  *)
(***************************************************************************)
VARIABLES
    \* scrape.py __main__
    pc,             \* position in the script
    num_tickers,    \* the accepted ticker count (0 before it is read)
    stock_tickers,  \* the validated tickers, in input order
    i,              \* position of the per-ticker loop in stock_tickers
    dir_exists,     \* whether dataset/ exists
    disk,           \* dataset/{stock}_{kind}.csv: None or Some(content)
    fin, balance, cashflow, market,   \* the frames extracted for the ticker
    exc,            \* the uncaught exception (None when there is none)
    \* history of the run
    disk0,          \* the files before the run
    rejected,       \* a ticker failed validation
    calls,          \* provider properties read: <<stock, property>>
    invoked,        \* extractor invocations: <<stock, extractor>>
    written,        \* files written by the run: <<stock, kind>>
    fetches,        \* per ticker, the times the fetch path was entered
    missing,        \* per ticker, the files missing at its existence check
    \* the extractors on their own
    category, ticker_obj, metrics_arg, result,
    \* the structuring script
    spc,            \* position in the structuring script
    balance_sheet, cashflow_csv, financials,   \* the three CSV files as read
    combined,       \* the concatenated long records
    structured_df   \* the pivoted table

main_vars == <<pc, num_tickers, stock_tickers, i, dir_exists, disk, fin, balance,
               cashflow, market, exc, disk0, rejected, calls, invoked, written,
               fetches, missing>>

extract_vars == <<category, ticker_obj, metrics_arg, result>>

structure_vars == <<spc, balance_sheet, cashflow_csv, financials, combined,
                    structured_df>>

vars == <<main_vars, extract_vars, structure_vars>>

(***************************************************************************)
(* Bounds and inputs of the orchestrator.                                  *)
(***************************************************************************)
\* The largest ticker count the model enters (the script accepts MAX_TICKERS).
MaxBatch == 3

Symbols == {"AAPL", "MSFT"}

\* What the user may type at the ticker prompt.
RawTickers == {"AAPL", " aapl ", "msft"}

\* input(...).strip().upper()
strip_upper(raw) ==
    CASE raw = " aapl " -> "AAPL"
      [] raw = "msft" -> "MSFT"
      [] OTHER -> raw

\* What the user may type at the count prompt: a non-number, or a number.
CountInputs ==
    {[int |-> FALSE, n |-> 0]} \cup
    {[int |-> TRUE, n |-> n] : n \in (0..MaxBatch) \cup {MAX_TICKERS + 1}}

Kinds == {"financials", "balance", "cashflow", "market"}

Extractors == {"extract_financial", "extract_balance", "extract_cashflow",
               "extract_market"}

\* The content of a file that was there before the run.
PriorContent == [columns |-> <<"Metrics", "2021-09-25">>, rows |-> <<>>]

\* Provider statements the orchestrator may be served.
GoodStatement(labels) ==
    [index |-> labels,
     columns |-> <<"2024-09-30 00:00:00", "2023-09-30 00:00:00">>,
     data |-> [r \in 1..Len(labels) |-> <<Some(r), NaN>>]]

GoodTTM(labels) ==
    [index |-> labels,
     columns |-> <<"2024-09-30 00:00:00">>,
     data |-> [r \in 1..Len(labels) |-> <<Some(0)>>]]

EmptyStatement == [index |-> <<>>, columns |-> <<>>, data |-> <<>>]

GoodInfo ==
    [k \in {"regularMarketPrice", "currentPrice", "forwardEps"} |->
        IF k = "forwardEps" THEN None ELSE Some(1)]

GoodTicker ==
    [financials |-> Some(GoodStatement(<<"Total Revenue", "EBIT", "Tax Provision">>)),
     ttm_financials |-> Some(GoodTTM(<<"Net Income", "EBIT">>)),
     balance_sheet |-> Some(GoodStatement(<<"Total Assets", "Unrelated Row">>)),
     cashflow |-> Some(GoodStatement(<<"Capital Expenditure", "Free Cash Flow">>)),
     ttm_cashflow |-> Some(GoodTTM(<<"Capital Expenditure">>)),
     info |-> Some(GoodInfo)]

\* What a read of the ticker object's properties may return.
ProviderTickers ==
    {GoodTicker,
     [GoodTicker EXCEPT !.ttm_financials = None],
     [GoodTicker EXCEPT !.balance_sheet = Some(EmptyStatement)],
     [GoodTicker EXCEPT !.cashflow = None],
     [GoodTicker EXCEPT !.info = Some(<<>>)]}

\* What yf.Ticker(ticker).info may do during validation: raise, or return.
InfoResponses ==
    {[err |-> TRUE, info |-> None],
     [err |-> FALSE, info |-> None],
     [err |-> FALSE, info |-> Some(GoodInfo)],
     [err |-> FALSE, info |-> Some([k \in {"regularMarketPrice"} |-> None])],
     [err |-> FALSE, info |-> Some([k \in {"currentPrice"} |-> Some(1)])]}

\* is_valid_ticker, given what the provider did.  'x' in None raises, and the
\* bare except turns every exception into False.
is_valid_ticker(resp) ==
    /\ ~resp.err
    /\ resp.info # None
    /\ "regularMarketPrice" \in DOMAIN resp.info[1]
    /\ resp.info[1]["regularMarketPrice"] # None

\* Mutant of all_exist: any(...) where the script says all(...).
any_exist(d, stock) == \E k \in Kinds : d[<<stock, k>>] # None

\* all(f.exists() for f in files.values())
all_exist(d, stock) == \A k \in Kinds : d[<<stock, k>>] # None

IdleExtract ==
    /\ category = "none"
    /\ ticker_obj = None
    /\ metrics_arg = <<>>
    /\ result = None

IdleStructure ==
    /\ spc = "idle"
    /\ balance_sheet = None
    /\ cashflow_csv = None
    /\ financials = None
    /\ combined = <<>>
    /\ structured_df = None

IdleMain ==
    /\ pc = "idle"
    /\ num_tickers = 0
    /\ stock_tickers = <<>>
    /\ i = 0
    /\ dir_exists = FALSE
    /\ disk = [f \in Symbols \X Kinds |-> None]
    /\ fin = None /\ balance = None /\ cashflow = None /\ market = None
    /\ exc = None
    /\ disk0 = disk
    /\ rejected = FALSE
    /\ calls = {} /\ invoked = {} /\ written = {}
    /\ fetches = [s \in Symbols |-> 0]
    /\ missing = [s \in Symbols |-> {}]

(***************************************************************************)
(* scrape.py __main__.                                                     *)
(***************************************************************************)
Init ==
    /\ pc = "count"
    /\ num_tickers = 0
    /\ stock_tickers = <<>>
    /\ i = 0
    /\ dir_exists \in BOOLEAN
    /\ disk \in [Symbols \X Kinds -> {None, Some(PriorContent)}]
    /\ (~dir_exists => \A f \in Symbols \X Kinds : disk[f] = None)
    /\ fin = None /\ balance = None /\ cashflow = None /\ market = None
    /\ exc = None
    /\ disk0 = disk
    /\ rejected = FALSE
    /\ calls = {} /\ invoked = {} /\ written = {}
    /\ fetches = [s \in Symbols |-> 0]
    /\ missing = [s \in Symbols |-> {}]
    /\ IdleExtract
    /\ IdleStructure

\* Lines 159-167: prompt until a count in 1..MAX_TICKERS is entered.
ReadCount ==
    /\ pc = "count"
    /\ \E inp \in CountInputs :
          IF inp.int /\ 1 <= inp.n /\ inp.n <= MAX_TICKERS
          THEN /\ num_tickers' = inp.n
               /\ pc' = "ticker"
          ELSE UNCHANGED <<num_tickers, pc>>
    /\ UNCHANGED <<stock_tickers, i, dir_exists, disk, fin, balance, cashflow,
                   market, exc, disk0, rejected, calls, invoked, written,
                   fetches, missing, extract_vars, structure_vars>>

\* Mutant of ReadTicker: an invalid ticker is reported and asked for again
\* instead of ending the run.
ReadTickerRetry ==
    /\ pc = "ticker"
    /\ Len(stock_tickers) < num_tickers
    /\ \E raw \in RawTickers, resp \in InfoResponses :
          LET stock == strip_upper(raw)
          IN  /\ calls' = calls \cup {<<stock, "info">>}
              /\ IF ~is_valid_ticker(resp)
                 THEN /\ rejected' = TRUE
                      /\ UNCHANGED <<pc, stock_tickers>>
                 ELSE /\ stock_tickers' = Append(stock_tickers, stock)
                      /\ UNCHANGED <<pc, rejected>>
    /\ UNCHANGED <<num_tickers, i, dir_exists, disk, fin, balance, cashflow,
                   market, exc, disk0, invoked, written, fetches, missing,
                   extract_vars, structure_vars>>

\* Lines 170-177: one pass of the input loop; sys.exit(1) on an invalid ticker.
ReadTicker ==
    /\ pc = "ticker"
    /\ Len(stock_tickers) < num_tickers
    /\ \E raw \in RawTickers, resp \in InfoResponses :
          LET stock == strip_upper(raw)
          IN  /\ calls' = calls \cup {<<stock, "info">>}
              /\ IF ~is_valid_ticker(resp)
                 THEN /\ pc' = "exit1"
                      /\ rejected' = TRUE
                      /\ UNCHANGED stock_tickers
                 ELSE /\ stock_tickers' = Append(stock_tickers, stock)
                      /\ UNCHANGED <<pc, rejected>>
    /\ UNCHANGED <<num_tickers, i, dir_exists, disk, fin, balance, cashflow,
                   market, exc, disk0, invoked, written, fetches, missing,
                   extract_vars, structure_vars>>

\* Lines 180-185: yf.Tickers(...), dataset/ is created, the loop starts.
CreateTickers ==
    /\ pc = "ticker"
    /\ Len(stock_tickers) = num_tickers
    /\ dir_exists' = TRUE
    /\ i' = 1
    /\ pc' = "check"
    /\ UNCHANGED <<num_tickers, stock_tickers, disk, fin, balance, cashflow,
                   market, exc, disk0, rejected, calls, invoked, written,
                   fetches, missing, extract_vars, structure_vars>>

\* Mutant of CheckFiles: the "continue" of the skip branch is missing, so a
\* ticker whose files all exist is fetched as well.
CheckFilesNoContinue ==
    /\ pc = "check"
    /\ i <= Len(stock_tickers)
    /\ LET stock == stock_tickers[i]
       IN  /\ pc' = "extract_financial"
           /\ fetches' = [fetches EXCEPT ![stock] = @ + 1]
           /\ missing' = [missing EXCEPT
                             ![stock] = {k \in Kinds : disk[<<stock, k>>] = None}]
           /\ UNCHANGED i
    /\ UNCHANGED <<num_tickers, stock_tickers, dir_exists, disk, fin, balance,
                   cashflow, market, exc, disk0, rejected, calls, invoked,
                   written, extract_vars, structure_vars>>

\* Lines 185-201: the next ticker; skip it when its four files exist.
CheckFiles ==
    /\ pc = "check"
    /\ i <= Len(stock_tickers)
    /\ LET stock == stock_tickers[i]
       IN  IF all_exist(disk, stock)
           THEN /\ i' = i + 1
                /\ UNCHANGED <<pc, fetches, missing>>
           ELSE /\ pc' = "extract_financial"
                /\ fetches' = [fetches EXCEPT ![stock] = @ + 1]
                /\ missing' = [missing EXCEPT
                                  ![stock] = {k \in Kinds : disk[<<stock, k>>] = None}]
                /\ UNCHANGED i
    /\ UNCHANGED <<num_tickers, stock_tickers, dir_exists, disk, fin, balance,
                   cashflow, market, exc, disk0, rejected, calls, invoked,
                   written, extract_vars, structure_vars>>

\* Line 204.
ExtractFinancial ==
    /\ pc = "extract_financial"
    /\ \E t \in ProviderTickers :
          LET r == extract_financial(t)
          IN  IF r.raised
              THEN /\ exc' = Some(r.error)
                   /\ pc' = "raised"
                   /\ UNCHANGED fin
              ELSE /\ fin' = Some(r.value)
                   /\ pc' = "extract_balance"
                   /\ UNCHANGED exc
    /\ invoked' = invoked \cup {<<stock_tickers[i], "extract_financial">>}
    /\ calls' = calls \cup {<<stock_tickers[i], "financials">>,
                            <<stock_tickers[i], "ttm_financials">>}
    /\ UNCHANGED <<num_tickers, stock_tickers, i, dir_exists, disk, balance,
                   cashflow, market, disk0, rejected, written, fetches, missing,
                   extract_vars, structure_vars>>

\* Line 205.
ExtractBalance ==
    /\ pc = "extract_balance"
    /\ \E t \in ProviderTickers :
          LET r == extract_balance(t)
          IN  IF r.raised
              THEN /\ exc' = Some(r.error)
                   /\ pc' = "raised"
                   /\ UNCHANGED balance
              ELSE /\ balance' = Some(r.value)
                   /\ pc' = "extract_cashflow"
                   /\ UNCHANGED exc
    /\ invoked' = invoked \cup {<<stock_tickers[i], "extract_balance">>}
    /\ calls' = calls \cup {<<stock_tickers[i], "balance_sheet">>}
    /\ UNCHANGED <<num_tickers, stock_tickers, i, dir_exists, disk, fin,
                   cashflow, market, disk0, rejected, written, fetches, missing,
                   extract_vars, structure_vars>>

\* Mutant of ExtractCashflow: the error is caught and the run goes on without
\* the cash-flow frame.
ExtractCashflowCaught ==
    /\ pc = "extract_cashflow"
    /\ \E t \in ProviderTickers :
          LET r == extract_cashflow(t)
          IN  IF r.raised
              THEN /\ exc' = Some(r.error)
                   /\ pc' = "extract_market"
                   /\ UNCHANGED cashflow
              ELSE /\ cashflow' = Some(r.value)
                   /\ pc' = "extract_market"
                   /\ UNCHANGED exc
    /\ invoked' = invoked \cup {<<stock_tickers[i], "extract_cashflow">>}
    /\ calls' = calls \cup {<<stock_tickers[i], "cashflow">>,
                            <<stock_tickers[i], "ttm_cashflow">>}
    /\ UNCHANGED <<num_tickers, stock_tickers, i, dir_exists, disk, fin, balance,
                   market, disk0, rejected, written, fetches, missing,
                   extract_vars, structure_vars>>

\* Line 206.
ExtractCashflow ==
    /\ pc = "extract_cashflow"
    /\ \E t \in ProviderTickers :
          LET r == extract_cashflow(t)
          IN  IF r.raised
              THEN /\ exc' = Some(r.error)
                   /\ pc' = "raised"
                   /\ UNCHANGED cashflow
              ELSE /\ cashflow' = Some(r.value)
                   /\ pc' = "extract_market"
                   /\ UNCHANGED exc
    /\ invoked' = invoked \cup {<<stock_tickers[i], "extract_cashflow">>}
    /\ calls' = calls \cup {<<stock_tickers[i], "cashflow">>,
                            <<stock_tickers[i], "ttm_cashflow">>}
    /\ UNCHANGED <<num_tickers, stock_tickers, i, dir_exists, disk, fin, balance,
                   market, disk0, rejected, written, fetches, missing,
                   extract_vars, structure_vars>>

\* Line 207.
ExtractMarket ==
    /\ pc = "extract_market"
    /\ \E t \in ProviderTickers :
          LET r == extract_market(t)
          IN  IF r.raised
              THEN /\ exc' = Some(r.error)
                   /\ pc' = "raised"
                   /\ UNCHANGED market
              ELSE /\ market' = Some(r.value)
                   /\ pc' = "save_financials"
                   /\ UNCHANGED exc
    /\ invoked' = invoked \cup {<<stock_tickers[i], "extract_market">>}
    /\ calls' = calls \cup {<<stock_tickers[i], "info">>}
    /\ UNCHANGED <<num_tickers, stock_tickers, i, dir_exists, disk, fin, balance,
                   cashflow, disk0, rejected, written, fetches, missing,
                   extract_vars, structure_vars>>

\* Mutant of save_if_missing: the file is written whether or not it exists.
save_always(kind, frame) ==
    LET f == <<stock_tickers[i], kind>>
    IN  /\ disk' = [disk EXCEPT ![f] = frame]
        /\ written' = written \cup {f}

\* "if not files[kind].exists(): frame.to_csv(files[kind], index=False)"
save_if_missing(kind, frame) ==
    LET f == <<stock_tickers[i], kind>>
    IN  IF disk[f] = None
        THEN /\ disk' = [disk EXCEPT ![f] = frame]
             /\ written' = written \cup {f}
        ELSE UNCHANGED <<disk, written>>

\* Lines 210-211.
SaveFinancials ==
    /\ pc = "save_financials"
    /\ save_if_missing("financials", fin)
    /\ pc' = "save_balance"
    /\ UNCHANGED <<num_tickers, stock_tickers, i, dir_exists, fin, balance,
                   cashflow, market, exc, disk0, rejected, calls, invoked,
                   fetches, missing, extract_vars, structure_vars>>

\* Lines 213-214.
SaveBalance ==
    /\ pc = "save_balance"
    /\ save_if_missing("balance", balance)
    /\ pc' = "save_cashflow"
    /\ UNCHANGED <<num_tickers, stock_tickers, i, dir_exists, fin, balance,
                   cashflow, market, exc, disk0, rejected, calls, invoked,
                   fetches, missing, extract_vars, structure_vars>>

\* Lines 216-217.
SaveCashflow ==
    /\ pc = "save_cashflow"
    /\ save_if_missing("cashflow", cashflow)
    /\ pc' = "save_market"
    /\ UNCHANGED <<num_tickers, stock_tickers, i, dir_exists, fin, balance,
                   cashflow, market, exc, disk0, rejected, calls, invoked,
                   fetches, missing, extract_vars, structure_vars>>

\* Lines 219-222: the last file, then the next ticker.
SaveMarket ==
    /\ pc = "save_market"
    /\ save_if_missing("market", market)
    /\ pc' = "check"
    /\ i' = i + 1
    /\ UNCHANGED <<num_tickers, stock_tickers, dir_exists, fin, balance,
                   cashflow, market, exc, disk0, rejected, calls, invoked,
                   fetches, missing, extract_vars, structure_vars>>

\* Line 224: the loop is over, 'All done!'.
AllDone ==
    /\ pc = "check"
    /\ i > Len(stock_tickers)
    /\ pc' = "done"
    /\ UNCHANGED <<num_tickers, stock_tickers, i, dir_exists, disk, fin, balance,
                   cashflow, market, exc, disk0, rejected, calls, invoked,
                   written, fetches, missing, extract_vars, structure_vars>>

Next ==
    \/ ReadCount
    \/ ReadTicker
    \/ CreateTickers
    \/ CheckFiles
    \/ ExtractFinancial
    \/ ExtractBalance
    \/ ExtractCashflow
    \/ ExtractMarket
    \/ SaveFinancials
    \/ SaveBalance
    \/ SaveCashflow
    \/ SaveMarket
    \/ AllDone

Spec == Init /\ [][Next]_vars


(***************************************************************************)
(* Properties of the orchestrator (checked under Spec).                    *)
(***************************************************************************)
\* The four output files of ticker stock are present in directory d.
FourFiles(d, stock) ==
    /\ d[<<stock, "financials">>] # None
    /\ d[<<stock, "balance">>] # None
    /\ d[<<stock, "cashflow">>] # None
    /\ d[<<stock, "market">>] # None

WrittenOf(stock) == {f \in written : f[1] = stock}

CallsOf(stock) == {c \in calls : c[1] = stock}

InvokedOf(stock) == {e \in invoked : e[1] = stock}

Unchanged(stock) == \A k \in Kinds : disk[<<stock, k>>] = disk0[<<stock, k>>]

\* The loop body of ticker stock is running.
InIteration(stock) ==
    /\ pc \in {"extract_financial", "extract_balance", "extract_cashflow",
               "extract_market", "save_financials", "save_balance",
               "save_cashflow", "save_market"}
    /\ stock_tickers[i] = stock

\* The loop body of ticker stock ended by an exception.
RaisedIn(stock) == pc = "raised" /\ stock_tickers[i] = stock

\* C1: once a requested ticker has failed validation the run has ended with
\* sys.exit(1), no file of any ticker has been written (the files are those
\* of before the run) and no extractor has been invoked.
C1_AllOrNothing ==
    rejected => /\ pc = "exit1"
                /\ written = {}
                /\ invoked = {}
                /\ disk = disk0
                /\ ~ENABLED Next

\* C1 witness: the second ticker is rejected after a first one, some of whose
\* files are missing, was validated.
C1_Witness ==
    /\ rejected
    /\ Len(stock_tickers) >= 1
    /\ ~FourFiles(disk0, stock_tickers[1])

\* C2 as stated: a ticker whose four files exist before the run has no
\* provider call at all made for it, nothing written, its files unchanged.
C2_NoProviderCalls ==
    \A s \in Symbols :
        FourFiles(disk0, s) =>
            /\ CallsOf(s) = {}
            /\ WrittenOf(s) = {}
            /\ Unchanged(s)

\* C2 amended: a ticker whose four files exist before the run has no
\* extractor invoked for it and nothing written, its files keep their
\* content, and the only provider call made for it is the info lookup of
\* its validation.
C2_Idempotent ==
    \A s \in Symbols :
        FourFiles(disk0, s) =>
            /\ CallsOf(s) \subseteq {<<s, "info">>}
            /\ InvokedOf(s) = {}
            /\ fetches[s] = 0
            /\ WrittenOf(s) = {}
            /\ Unchanged(s)

\* C2 witness: the run ends normally with such a ticker in the batch.
C2_Witness ==
    /\ pc = "done"
    /\ \E s \in Range(stock_tickers) : FourFiles(disk0, s)

\* C3 as stated: every validated ticker whose existence check found a file
\* missing has, once its loop body is over, had all four extractors invoked
\* and exactly the missing files written; existing files keep their content.
C3_AllInvokedAllWritten ==
    /\ \A s \in Symbols :
          (fetches[s] > 0 /\ ~InIteration(s)) =>
              /\ InvokedOf(s) = {s} \X Extractors
              /\ WrittenOf(s) = {s} \X missing[s]
    /\ \A f \in Symbols \X Kinds :
          disk0[f] # None => (disk[f] = disk0[f] /\ f \notin written)

\* C3 amended: the same for every ticker whose loop body ended without an
\* extractor raising; and in every case, also when an extractor raises, the
\* files written are among those missing at the check and a file that
\* existed is never written and keeps its content.
C3_WriteOnlyMissing ==
    /\ \A s \in Symbols :
          (fetches[s] > 0 /\ ~InIteration(s) /\ ~RaisedIn(s)) =>
              /\ InvokedOf(s) = {s} \X Extractors
              /\ WrittenOf(s) = {s} \X missing[s]
    /\ \A s \in Symbols : WrittenOf(s) \subseteq {s} \X missing[s]
    /\ \A f \in Symbols \X Kinds :
          disk0[f] # None => (disk[f] = disk0[f] /\ f \notin written)

\* C3 witness: a ticker with some files present and some missing was fetched
\* and the run ended normally.
C3_Witness ==
    /\ pc = "done"
    /\ \E s \in Symbols : /\ fetches[s] > 0
                          /\ missing[s] # Kinds
                          /\ WrittenOf(s) # {}

\* C4: when an extractor has raised, the run has ended there (no step
\* follows, so no later ticker is processed) and no file of the ticker being
\* fetched has been written in the run.
C4_NoPartialOutput ==
    exc # None =>
        /\ pc = "raised"
        /\ ~ENABLED Next
        /\ WrittenOf(stock_tickers[i]) = {}
        /\ Unchanged(stock_tickers[i])

\* C4 witness: the third extractor raises after two succeeded, with another
\* ticker still to come.
C4_Witness ==
    /\ exc # None
    /\ fin # None /\ balance # None
    /\ <<stock_tickers[i], "extract_cashflow">> \in invoked
    /\ i < Len(stock_tickers)
    /\ stock_tickers[i + 1] # stock_tickers[i]

\* C10: at 'All done!' every requested ticker has its four files; and no
\* ticker enters the fetch path twice in a run.
C10_AllFilesAtEnd ==
    /\ pc = "done" =>
          /\ Len(stock_tickers) = num_tickers
          /\ \A s \in Range(stock_tickers) : FourFiles(disk, s)
    /\ \A s \in Symbols : fetches[s] <= 1

\* C10 witness: a normal end of a batch that names a ticker twice, the ticker
\* having had some but not all of its files.
C10_Witness ==
    /\ pc = "done"
    /\ \E j, k \in DOMAIN stock_tickers :
          /\ j < k
          /\ stock_tickers[j] = stock_tickers[k]
          /\ fetches[stock_tickers[j]] = 1
          /\ missing[stock_tickers[j]] \notin {{}, Kinds}


(***************************************************************************)
(* The extractors on bounded provider responses (SpecExtract).             *)
(***************************************************************************)
\* The most rows and the most period columns of a provider statement.
MaxRows == 2

MaxCols == 2

\* Period columns as the provider labels them (timestamps).
Timestamps == {"2024-09-30 00:00:00", "2023-09-30 00:00:00", "2022-09-24 16:30:00"}

\* Row labels a statement may carry: catalog metrics and one foreign row.
FinLabels == {"EBIT", "Net Income", "Tax Provision"}

BalanceLabels ==
    {"Total Assets", "Total Liabilities Net Minority Interest", "Unrelated Row"}

CashflowLabels ==
    {"Capital Expenditure", "Cash Flow From Continuing Operating Activities",
     "Free Cash Flow"}

SliceLabels == {"EBIT", "Total Assets", "Unrelated Row"}

\* How the cells of a statement are filled.
Fills == {"dense", "sparse"}

Cell(fill, label, ts) ==
    IF fill = "sparse"
    THEN IF ts = "2023-09-30 00:00:00" \/ label = "Net Income" THEN NaN ELSE Some(0)
    ELSE IF ts = "2024-09-30 00:00:00" THEN Some(0) ELSE Some(1)

Statement(ix, cs, fill) ==
    [index |-> ix,
     columns |-> cs,
     data |-> [r \in 1..Len(ix) |-> [c \in 1..Len(cs) |-> Cell(fill, ix[r], cs[c])]]]

\* Periodic statements over the given labels.
StdTables(labels) ==
    {Statement(ix, cs, fill) :
        ix \in DistinctSeqs(labels, MaxRows),
        cs \in DistinctSeqs(Timestamps, MaxCols),
        fill \in Fills}

\* TTM statements over the given labels: no column, or one.
TtmTables(labels) ==
    {Statement(ix, cs, fill) :
        ix \in DistinctSeqs(labels, MaxRows),
        cs \in {<<>>, <<"2024-09-30 00:00:00">>},
        fill \in Fills}

\* A statement the provider may return: None, or a table.
Optional(tables) == {None} \cup {Some(t) : t \in tables}

InfoKeys == Range(market_metrics) \cup {"regularMarketPrice"}

\* The info dictionaries: any keys, each None or a number.
Infos == UNION {[K -> {None, Some(2)}] : K \in SUBSET InfoKeys}

NoTicker ==
    [financials |-> None, ttm_financials |-> None, balance_sheet |-> None,
     cashflow |-> None, ttm_cashflow |-> None, info |-> None]

InitExtract ==
    /\ IdleMain
    /\ IdleStructure
    /\ result = None
    /\ \/ /\ category = "slice"
          /\ metrics_arg \in {financial_metrics, balance_metrics, cashflow_metrics}
          /\ \E df \in StdTables(SliceLabels) :
                ticker_obj = [NoTicker EXCEPT !.financials = Some(df)]
       \/ /\ category = "financial"
          /\ metrics_arg = financial_metrics
          /\ \E std \in Optional(StdTables(FinLabels)),
                ttm \in Optional(TtmTables(FinLabels)) :
                ticker_obj = [NoTicker EXCEPT !.financials = std,
                                              !.ttm_financials = ttm]
       \/ /\ category = "balance"
          /\ metrics_arg = balance_metrics
          /\ \E std \in Optional(StdTables(BalanceLabels)) :
                ticker_obj = [NoTicker EXCEPT !.balance_sheet = std]
       \/ /\ category = "cashflow"
          /\ metrics_arg = cashflow_metrics
          /\ \E std \in Optional(StdTables(CashflowLabels)),
                ttm \in Optional(TtmTables(CashflowLabels)) :
                ticker_obj = [NoTicker EXCEPT !.cashflow = std,
                                              !.ttm_cashflow = ttm]
       \/ /\ category = "market"
          /\ metrics_arg = market_metrics
          /\ \E info \in Optional(Infos) :
                ticker_obj = [NoTicker EXCEPT !.info = info]

CallGetStdValues ==
    /\ category = "slice"
    /\ result = None
    /\ result' = Some(Return(get_std_values(ticker_obj.financials[1], metrics_arg)))
    /\ UNCHANGED <<category, ticker_obj, metrics_arg, main_vars, structure_vars>>

CallExtractFinancial ==
    /\ category = "financial"
    /\ result = None
    /\ result' = Some(extract_financial(ticker_obj))
    /\ UNCHANGED <<category, ticker_obj, metrics_arg, main_vars, structure_vars>>

CallExtractBalance ==
    /\ category = "balance"
    /\ result = None
    /\ result' = Some(extract_balance(ticker_obj))
    /\ UNCHANGED <<category, ticker_obj, metrics_arg, main_vars, structure_vars>>

CallExtractCashflow ==
    /\ category = "cashflow"
    /\ result = None
    /\ result' = Some(extract_cashflow(ticker_obj))
    /\ UNCHANGED <<category, ticker_obj, metrics_arg, main_vars, structure_vars>>

CallExtractMarket ==
    /\ category = "market"
    /\ result = None
    /\ result' = Some(extract_market(ticker_obj))
    /\ UNCHANGED <<category, ticker_obj, metrics_arg, main_vars, structure_vars>>

NextExtract ==
    \/ CallGetStdValues
    \/ CallExtractFinancial
    \/ CallExtractBalance
    \/ CallExtractCashflow
    \/ CallExtractMarket

SpecExtract == InitExtract /\ [][NextExtract]_vars


(***************************************************************************)
(* Properties of the extractors (checked under SpecExtract).               *)
(***************************************************************************)
\* The extractor returned a frame.
Returned == result # None /\ ~result[1].raised

\* The frame returned.
Out == result[1].value

\* The values of the "Metrics" column of frame f.
MetricsOf(f) ==
    LET mc == IndexOf(f.columns, "Metrics")
    IN  {f.rows[r][mc] : r \in DOMAIN f.rows}

\* The periodic and the TTM statement of the category extracted.
StdOf ==
    CASE category = "financial" -> ticker_obj.financials[1]
      [] category = "cashflow" -> ticker_obj.cashflow[1]
      [] category = "balance" -> ticker_obj.balance_sheet[1]
      [] OTHER -> ticker_obj.financials[1]

TtmOf ==
    IF category = "financial" THEN ticker_obj.ttm_financials[1]
    ELSE ticker_obj.ttm_cashflow[1]

\* The calendar date of a provider timestamp.
DateOf(ts) ==
    CASE ts = "2024-09-30 00:00:00" -> "2024-09-30"
      [] ts = "2023-09-30 00:00:00" -> "2023-09-30"
      [] ts = "2022-09-24 16:30:00" -> "2022-09-24"

\* C5: the values of the "Metrics" column of get_std_values' output are
\* exactly the row labels of the table that are in the metric list, each
\* once (directly, and through extract_balance).
C5_SliceIsIntersection ==
    (Returned /\ category \in {"slice", "balance"}) =>
        /\ MetricsOf(Out) = Range(StdOf.index) \cap Range(metrics_arg)
        /\ Len(Out.rows) = Cardinality(Range(StdOf.index) \cap Range(metrics_arg))

\* C5 witness: a table with a listed row and a row outside the list, sliced
\* by a list that names metrics the table lacks.
C5_Witness ==
    /\ Returned
    /\ category = "slice"
    /\ Len(Out.rows) = 1
    /\ Len(StdOf.index) = 2
    /\ Range(metrics_arg) \ Range(StdOf.index) # {}

\* C6: the merged table of extract_financial and extract_cashflow has one row
\* per catalog metric found in the TTM table or in the periodic table; a
\* metric of the periodic table only has NaN under "TTM" (never 0), a metric
\* of the TTM table only has NaN in every period cell; the other cells are
\* those of the source tables.
C6_OuterMerge ==
    (Returned /\ category \in {"financial", "cashflow"}) =>
        LET inTtm == Range(metrics_arg) \cap Range(TtmOf.index)
            inStd == Range(metrics_arg) \cap Range(StdOf.index)
            mc == IndexOf(Out.columns, "Metrics")
            tc == IndexOf(Out.columns, "TTM")
            periods == DOMAIN Out.columns \ {mc, tc}
        IN  /\ MetricsOf(Out) = inTtm \cup inStd
            /\ Len(Out.rows) = Cardinality(inTtm \cup inStd)
            /\ \A r \in DOMAIN Out.rows :
                  LET m == Out.rows[r][mc]
                  IN  /\ m \notin inTtm => Out.rows[r][tc] = NaN
                      /\ m \in inTtm =>
                            Out.rows[r][tc] =
                                TtmOf.data[IndexOf(TtmOf.index, m)][1]
                      /\ m \notin inStd =>
                            \A c \in periods : Out.rows[r][c] = NaN
                      /\ m \in inStd =>
                            \A c \in 1..Len(StdOf.columns) :
                                \E o \in periods :
                                    /\ Out.columns[o] = DateOf(StdOf.columns[c])
                                    /\ Out.rows[r][o] =
                                          StdOf.data[IndexOf(StdOf.index, m)][c]

\* C6 witness: a merge with a metric of the TTM table only and a metric of
\* the periodic table only, both with values.
C6_Witness ==
    /\ Returned
    /\ category = "financial"
    /\ "EBIT" \in Range(TtmOf.index) \ Range(StdOf.index)
    /\ "Net Income" \in Range(StdOf.index) \ Range(TtmOf.index)
    /\ Len(StdOf.columns) = 2
    /\ TtmOf.data[IndexOf(TtmOf.index, "EBIT")][1] # NaN
    /\ StdOf.data[IndexOf(StdOf.index, "Net Income")][1] # NaN

\* C7: extract_financial and extract_cashflow return the columns "Metrics",
\* "TTM", then the period columns in the provider's order; extract_balance
\* returns "Metrics", then the period columns in the provider's order, and
\* no "TTM" column.
C7_ColumnOrder ==
    Returned =>
        LET dates == [c \in 1..Len(StdOf.columns) |-> DateOf(StdOf.columns[c])]
        IN  /\ category \in {"financial", "cashflow"} =>
                  Out.columns = <<"Metrics", "TTM">> \o dates
            /\ category = "balance" =>
                  Out.columns = <<"Metrics">> \o dates

\* C7 witness: a financial table whose provider columns are not in
\* chronological order, the older one with a time of day.
C7_Witness ==
    /\ Returned
    /\ category = "financial"
    /\ StdOf.columns = <<"2022-09-24 16:30:00", "2024-09-30 00:00:00">>
    /\ Len(Out.rows) >= 1

\* C8: for a non-empty info dictionary extract_market returns four rows,
\* currentPrice, sharesOutstanding, forwardEps, enterpriseValue in that
\* order, the Value of a field missing from the dictionary being the absence
\* marker; an empty or absent dictionary raises.
C8_MarketRows ==
    (category = "market" /\ result # None) =>
        IF ticker_obj.info = None \/ DOMAIN ticker_obj.info[1] = {}
        THEN result[1].raised
        ELSE /\ ~result[1].raised
             /\ Out.columns = <<"Metrics", "Value">>
             /\ Len(Out.rows) = Len(market_metrics)
             /\ \A r \in DOMAIN Out.rows :
                   /\ Out.rows[r][1] = market_metrics[r]
                   /\ Out.rows[r][2] =
                         IF market_metrics[r] \in DOMAIN ticker_obj.info[1]
                         THEN ticker_obj.info[1][market_metrics[r]]
                         ELSE NaN

\* C8 witness: a dictionary with one of the four fields present and another
\* missing.
C8_Witness ==
    /\ category = "market"
    /\ Returned
    /\ "forwardEps" \notin DOMAIN ticker_obj.info[1]
    /\ "currentPrice" \in DOMAIN ticker_obj.info[1]
    /\ ticker_obj.info[1]["currentPrice"] # None


(***************************************************************************)
(* The structuring script (SpecStructure).  A CSV file as read by          *)
(* pd.read_csv is a frame [columns, rows] whose first column is "Metrics"; *)
(* an empty field reads as NaN.                                            *)
(***************************************************************************)
TICKER == "AAPL"

COMPANY_NAME == "Apple Inc."

\* df.melt(id_vars=["Metrics"], var_name="Year", value_name="Value"), the
\* metadata columns added: one long record per period column and row, the
\* columns in order and, within a column, the rows in order.
melt_financial_df(df, source_name) ==
    LET mc == IndexOf(df.columns, "Metrics")
        value_cols == SelectSeq([c \in 1..Len(df.columns) |-> c], LAMBDA c : c # mc)
        nrows == Len(df.rows)
    IN  [k \in 1..(Len(value_cols) * nrows) |->
            LET c == value_cols[((k - 1) \div nrows) + 1]
                r == ((k - 1) % nrows) + 1
            IN  [Year |-> df.columns[c],
                 Company_Ticker |-> TICKER,
                 Company_Name |-> COMPANY_NAME,
                 Source |-> source_name,
                 Metrics |-> df.rows[r][mc],
                 Value |-> df.rows[r][c]]]

\* Lexicographic order of the period labels and of the source names.
YearOrder == <<"2022-09-24", "2023-09-30", "2024-09-30", "TTM">>

SourceOrder == <<"Balance Sheet", "Cashflow", "Financial Statement">>

\* The (Source, Metrics) pairs of P, sorted.
RECURSIVE SortColumns(_, _)
SortColumns(P, k) ==
    IF k > Len(SourceOrder) THEN <<>>
    ELSE LET ms == SortLex({p[2] : p \in {q \in P : q[1] = SourceOrder[k]}})
         IN  [j \in 1..Len(ms) |-> <<SourceOrder[k], ms[j]>>] \o SortColumns(P, k + 1)

\* The group key of a long record: the index keys, then the column keys.
GroupKey(rec) ==
    <<rec.Year, rec.Company_Ticker, rec.Company_Name, rec.Source, rec.Metrics>>

\* aggfunc="first": the first value of the group that is not NaN.
RECURSIVE first_value(_, _, _)
first_value(records, key, k) ==
    IF k > Len(records) THEN NaN
    ELSE IF GroupKey(records[k]) = key /\ records[k].Value # NaN
    THEN records[k].Value
    ELSE first_value(records, key, k + 1)

\* combined.pivot_table(index=[Year, Company Ticker, Company Name],
\* columns=[Source, Metrics], values="Value", aggfunc="first").reset_index().
\* pivot_table (dropna=True by default) aggregates the groups, drops those
\* whose aggregate is NaN, then unstacks the column keys; rows and columns
\* come out sorted.
pivot_table(records) ==
    LET groups == {GroupKey(records[k]) : k \in DOMAIN records}
        agged == {g \in groups : first_value(records, g, 1) # NaN}
        years == SelectSeq(YearOrder, LAMBDA y : \E g \in agged : g[1] = y)
        cols == SortColumns({<<g[4], g[5]>> : g \in agged}, 1)
    IN  [columns |-> << <<"Year", "">>, <<"Company Ticker", "">>,
                        <<"Company Name", "">> >> \o cols,
         rows |-> [r \in 1..Len(years) |->
                     <<years[r], TICKER, COMPANY_NAME>> \o
                     [c \in 1..Len(cols) |->
                         first_value(records,
                                     <<years[r], TICKER, COMPANY_NAME,
                                       cols[c][1], cols[c][2]>>, 1)]]]

\* ' '.join(col).strip() on a column key: the words of the key that are not
\* empty, to be read joined by one space.
flatten(col) == SelectSeq(col, LAMBDA w : w # "")

\* The most rows of a CSV file.
MaxCsvRows == 1

\* A CSV file: period columns ys, rows ms; the cells of the periods in blank
\* are empty, the others hold a number.
CsvFile(ys, ms, blank) ==
    [columns |-> <<"Metrics">> \o ys,
     rows |-> [r \in 1..Len(ms) |->
                 <<ms[r]>> \o [c \in 1..Len(ys) |->
                                  IF ys[c] \in blank THEN NaN ELSE Some(r)]]]

CsvFiles(yearSeqs, labels) ==
    {CsvFile(ys, ms, blank) :
        ys \in yearSeqs,
        ms \in DistinctSeqs(labels, MaxCsvRows),
        blank \in {{}, {"2022-09-24"}}}

InitStructure ==
    /\ IdleMain
    /\ IdleExtract
    /\ spc = "loaded"
    /\ \E b \in CsvFiles({<<"2024-09-30", "2023-09-30">>,
                          <<"2024-09-30", "2022-09-24">>},
                         {"Total Assets", "Total Debt"}) :
          balance_sheet = Some(b)
    /\ \E c \in CsvFiles({<<"TTM", "2024-09-30">>,
                          <<"TTM", "2024-09-30", "2022-09-24">>},
                         {"Capital Expenditure", "EBIT"}) :
          cashflow_csv = Some(c)
    /\ \E f \in CsvFiles({<<"TTM", "2024-09-30">>,
                          <<"TTM", "2023-09-30", "2022-09-24">>},
                         {"EBIT", "Net Income"}) :
          financials = Some(f)
    /\ combined = <<>>
    /\ structured_df = None

\* Lines 247-252: melt the three files, concatenate.
MeltAndConcat ==
    /\ spc = "loaded"
    /\ combined' = melt_financial_df(balance_sheet[1], "Balance Sheet")
                   \o melt_financial_df(cashflow_csv[1], "Cashflow")
                   \o melt_financial_df(financials[1], "Financial Statement")
    /\ spc' = "combined"
    /\ UNCHANGED <<balance_sheet, cashflow_csv, financials, structured_df,
                   main_vars, extract_vars>>

\* Lines 255-260.
PivotTable ==
    /\ spc = "combined"
    /\ structured_df' = Some(pivot_table(combined))
    /\ spc' = "pivoted"
    /\ UNCHANGED <<balance_sheet, cashflow_csv, financials, combined,
                   main_vars, extract_vars>>

\* Lines 263-267: flatten the column keys; the table is then saved.
FlattenAndSave ==
    /\ spc = "pivoted"
    /\ structured_df' =
          Some([structured_df[1] EXCEPT
                   !.columns = [c \in 1..Len(@) |-> flatten(@[c])]])
    /\ spc' = "saved"
    /\ UNCHANGED <<balance_sheet, cashflow_csv, financials, combined,
                   main_vars, extract_vars>>

NextStructure ==
    \/ MeltAndConcat
    \/ PivotTable
    \/ FlattenAndSave

SpecStructure == InitStructure /\ [][NextStructure]_vars

(***************************************************************************)
(* Properties of the structuring script (checked under SpecStructure).     *)
(***************************************************************************)
\* The (Year, Company Ticker, Company Name) triples of the long records.
Triples ==
    {<<combined[k].Year, combined[k].Company_Ticker, combined[k].Company_Name>> :
        k \in DOMAIN combined}

\* The index triples of the rows of the structured table.
RowTriples ==
    {<<structured_df[1].rows[r][1], structured_df[1].rows[r][2],
       structured_df[1].rows[r][3]>> : r \in DOMAIN structured_df[1].rows}

\* C9: the structured table has exactly one row per distinct (Year, Company
\* Ticker, Company Name) triple of the long records, periods whose values
\* are all absent included.
C9_OneRowPerTriple ==
    structured_df # None =>
        /\ RowTriples = Triples
        /\ Len(structured_df[1].rows) = Cardinality(Triples)

\* What holds instead: at most one row per triple, and a row for exactly
\* the triples that have a value in some long record.
C9_RowsOfTriplesWithValues ==
    structured_df # None =>
        /\ Len(structured_df[1].rows) = Cardinality(RowTriples)
        /\ RowTriples =
              {<<combined[k].Year, combined[k].Company_Ticker,
                 combined[k].Company_Name>> :
                  k \in {j \in DOMAIN combined : combined[j].Value # NaN}}

=============================================================================
